---------------------------- MODULE Spec2Model ----------------------------
(***************************************************************************)
(* QuasarConfigFile (app-vite/lib/quasar-config-file.js): the watch loop   *)
(* that compiles, loads and normalizes quasar.config, the debounced apply  *)
(* callback, the dev-server address cache and negotiator, and the pure     *)
(* normalization helpers (formatPublicPath).                               *)
(*                                                                         *)
(* One build cycle is a chain of steps, one action per suspension point    *)
(* of the async build-end handler:                                         *)
(*   BuildStart -> BuildEnd -> ImportEnd -> FactoryEnd -> ExtendEnd        *)
(*              -> [AddressEnd] -> Finish                                  *)
(* watch(), the return of esbuild's watch() start-up call, the passing of  *)
(* time and the debounce timer interleave with these steps.                *)
(***************************************************************************)
EXTENDS Integers, Sequences, FiniteSets

(***************************************************************************)
(* Bounds of the model                                                     *)
(***************************************************************************)
\* number of build cycles esbuild runs in one session
MaxCycles == 3
\* longest tail of a public path after its prefix
MaxPathLen == 3
\* longest list of extras, animations, components, directives or plugins
MaxListLen == 5
\* longest list of css, boot or ssr.middlewares entries
MaxAssets == 3

(***************************************************************************)
(* Program constants                                                       *)
(***************************************************************************)
\* debounce(watch, 550)
DebounceWait == 550
\* the + 50 of the SSR + PWA default port
SsrPwaPortOffset == 50

\* granularity of the passing of time: half the debounce delay
TimeStep == DebounceWait \div 2

Min(a, b) == IF a < b THEN a ELSE b

(***************************************************************************)
(* Values                                                                  *)
(***************************************************************************)
Modes == {"spa", "ssr", "pwa", "electron", "cordova", "capacitor", "bex"}

defaultPortMapping ==
  [m \in Modes \ {"bex"} |->
     CASE m = "spa" -> 9000
       [] m = "ssr" -> 9100
       [] m = "pwa" -> 9200
       [] m = "electron" -> 9300
       [] m = "cordova" -> 9400
       [] m = "capacitor" -> 9500]

\* a falsy host / port (undefined, '' or 0)
NoHost == ""
NoPort == 0

\* utils/net.js localHostList: the loopback / any-address names
localHostList == {"0.0.0.0", "localhost", "127.0.0.1", "::1"}

\* what getExternalIP() answers
ExternalIP == "192.168.0.9"

\* devServer.host / devServer.port values a quasar.config may return
UserHosts == {NoHost, "10.0.0.5"}
UserPorts == {NoPort, 8080}
\* --hostname / --port values of the command line
CliArgs == {[host |-> NoHost, port |-> NoPort], [host |-> "172.16.0.1", port |-> 7000]}

NoPair == [host |-> NoHost, port |-> NoPort]
NoAddress == [set |-> FALSE, from |-> NoPair, to |-> NoPair]

\* a NormalizedConfig: the cycle that produced it, its dev-server address and
\* metaConf.openBrowser ("unset": no such property); cycle 0 stands for undefined
NoCfg == [cycle |-> 0, host |-> NoHost, port |-> NoPort, openBrowser |-> "unset"]
\* a user config: devServer.host, devServer.port, ssr.pwa and devServer.open
NoUserCfg == [host |-> NoHost, port |-> NoPort, ssrPwa |-> FALSE, open |-> "unset"]

\* utils/is-minimal-terminal.js: the process runs in a regular terminal
isMinimalTerminal == FALSE

\* what the factory of quasar.config may do
FactoryResults == {"throws", "null", "primitive", "object"}

\* findClosestOpenPort outcomes: the distance of the open port found, or an error
NetErrors == {"ERROR_NETWORK_PORT_NOT_AVAIL", "ERROR_NETWORK_ADDRESS_NOT_AVAIL", "other"}
Probes == [ok : {TRUE}, delta : {0, 1}, err : {"none"}]
            \cup [ok : {FALSE}, delta : {0}, err : NetErrors]

VARIABLES
  ctx,                \* #ctx: [dev, modeName, pwa (ctx.mode.pwa)]
  opts,               \* #opts: [host, port, verifyAddress, watch (a callback was given)]
  isWatching,         \* #isWatching
  address,            \* #address: the cached AddressNegotiation
  addressRunning,     \* module-level addressRunning
  cachedExternalHost, \* module-level cachedExternalHost
  tempFile,           \* whether the transient compiled artifact exists on disk
  isFirst,            \* closure variable of the quasar:watcher plugin
  firstBuildIsDone,   \* closure variable of #buildAndWatch: "undefined" or "res"
  readPc,             \* where read() stands
  pc,                 \* where the build cycle stands
  cycle,              \* number of builds started
  failOnError,        \* #computeConfig's parameter in the running pass
  cur,                \* the config being normalized in the running pass
  timer,              \* the debounce timer: [left (-1: none), arg]
  proc,               \* the process: [status, fatal (fatal() was called)]
  resolved,           \* the values the promise of read() was resolved with
  \* history variables
  cyc,                \* the running / last cycle: what it did and how it ended
  fruitless,          \* cycles that ended in a failure or were discarded
  firstSuccess,       \* the first cycle whose normalization succeeded (0: none)
  lastPass,           \* the address step of the running / last cycle (n = 0: not reached)
  everNegotiated,     \* some probe of onAddress succeeded
  sinceCall,          \* time since the last call of the debounced callback (-1: none)
  lastCall,           \* the cycle of the config of that call
  bursts,             \* number of bursts of debounced calls begun
  addressOut,         \* openBrowser of the config returned by the pass that stored
                      \* #address ("none": that pass has returned no config)
  applied,            \* number of invocations of the apply callback
  lastApplied,        \* the last invocation: [cfg, wait, last], configs by their cycle
  \* the pure normalization helpers, applied to drawn inputs
  nIn,                \* the build section of the user config, and the target
  nOut,               \* what the pass derives from it (done: the pass has run)
  lIn,                \* a list field of the user config, the target, the spinners
  lOut,               \* [done, list, again (the list normalized once more)]
  eIn,                \* the Context, build.env and router settings of the user config
  eOut                \* [done, APP_URL (of metaConf), vueRouterMode, vueRouterBase, env]

mainVars == <<ctx, opts, isWatching, address, addressRunning, cachedExternalHost,
              tempFile, isFirst, firstBuildIsDone, readPc, pc, cycle, failOnError,
              cur, timer, proc, resolved, cyc, fruitless, firstSuccess, lastPass,
              everNegotiated, addressOut, sinceCall, lastCall, bursts, applied,
              lastApplied>>
normVars == <<nIn, nOut, lIn, lOut, eIn, eOut>>
vars == <<mainVars, normVars>>


(***************************************************************************)
(* Strings are sequences of one-character strings                          *)
(***************************************************************************)
ToLower(c) ==
  CASE c = "H" -> "h" [] c = "T" -> "t" [] c = "P" -> "p" [] c = "S" -> "s"
    [] OTHER -> c

LowerCase(s) == [i \in 1..Len(s) |-> ToLower(s[i])]

startsWith(s, p) == Len(s) >= Len(p) /\ SubSeq(s, 1, Len(p)) = p

endsWith(s, p) == Len(s) >= Len(p) /\ SubSeq(s, Len(s) - Len(p) + 1, Len(s)) = p

\* urlRegex = /^http(s)?:\/\//i
urlRegexTest(s) ==
  \/ startsWith(LowerCase(s), <<"h", "t", "t", "p", ":", "/", "/">>)
  \/ startsWith(LowerCase(s), <<"h", "t", "t", "p", "s", ":", "/", "/">>)

\* a formatPublicPath that prepends the slash to URLs as well
formatPublicPathNoUrlTest(publicPath) ==
  IF publicPath = <<>> THEN <<"/">>
  ELSE LET p1 == IF endsWith(publicPath, <<"/">>) THEN publicPath
                 ELSE publicPath \o <<"/">>
       IN IF startsWith(p1, <<"/">>) THEN p1 ELSE <<"/">> \o p1

formatPublicPath(publicPath) ==
  IF publicPath = <<>> THEN <<"/">>
  ELSE LET p1 == IF endsWith(publicPath, <<"/">>) THEN publicPath
                 ELSE publicPath \o <<"/">>
       IN IF urlRegexTest(p1) THEN p1
          ELSE IF startsWith(p1, <<"/">>) THEN p1 ELSE <<"/">> \o p1

\* a router base: undefined, a string, or no value because the derivation threw
NoBase == [kind |-> "undefined", value |-> <<>>]
Str(s) == [kind |-> "string", value |-> s]
Throws == [kind |-> "throws", value |-> <<>>]

\* build.vueRouterMode / build.vueRouterBase values a quasar.config may return
RouterModes == {"none", "hash", "history"}
RouterBases == {NoBase, Str(<<"/", "b", "/">>)}

NoDerived == [done |-> FALSE, vueRouterMode |-> "none", publicPath |-> <<>>,
              again |-> <<>>, vueRouterBase |-> NoBase]

Digits == {"0", "1", "2", "3", "4", "5", "6", "7", "8", "9"}

\* the length of the longest prefix of s made of characters in S / not in S
SpanIn(s, S) ==
  CHOOSE n \in 0..Len(s) :
    (\A i \in 1..n : s[i] \in S) /\ (n = Len(s) \/ s[n + 1] \notin S)

SpanNotIn(s, S) ==
  CHOOSE n \in 0..Len(s) :
    (\A i \in 1..n : s[i] \notin S) /\ (n = Len(s) \/ s[n + 1] \in S)

Drop(s, n) == SubSeq(s, n + 1, Len(s))

\* publicPath.match(/^(https?\:)\/\/(([^:\/?#]*)(?:\:([0-9]+))?)([\/]{0,1}[^?#]*)(\?[^#]*|)(#.*|)$/):
\* [ok (the string matches), g5 (group 5)]
routerBaseMatch(publicPath) ==
  LET http  == <<"h", "t", "t", "p", ":", "/", "/">>
      https == <<"h", "t", "t", "p", "s", ":", "/", "/">>
  IN IF ~(startsWith(publicPath, http) \/ startsWith(publicPath, https))
       THEN [ok |-> FALSE, g5 |-> <<>>]
       ELSE
         LET rest   == IF startsWith(publicPath, http)
                         THEN Drop(publicPath, Len(http))
                         ELSE Drop(publicPath, Len(https))
             noHost == Drop(rest, SpanNotIn(rest, {":", "/", "?", "#"}))
             digits == IF noHost # <<>> /\ noHost[1] = ":"
                         THEN SpanIn(Drop(noHost, 1), Digits) ELSE 0
             noPort == IF digits > 0 THEN Drop(noHost, 1 + digits) ELSE noHost
         IN [ok |-> TRUE,
             g5 |-> SubSeq(noPort, 1, SpanNotIn(noPort, {"?", "#"}))]

\* a vueRouterMode that leaves the user's value for every target
vueRouterModeUser(modeName, userMode) ==
  IF userMode = "none" THEN "hash" ELSE userMode

\* cfg.build.vueRouterMode: merge({ vueRouterMode: 'hash' }, cfg.build), then
\* forced by the target
vueRouterMode(modeName, userMode) ==
  IF modeName = "ssr" THEN "history"
  ELSE IF modeName \in {"cordova", "capacitor", "electron", "bex"} THEN "hash"
  ELSE IF userMode = "none" THEN "hash" ELSE userMode

\* formatRouterBase(publicPath); match[ 5 ] of a null match throws a TypeError
formatRouterBase(publicPath) ==
  IF publicPath = <<>> \/ ~startsWith(publicPath, <<"h", "t", "t", "p">>)
    THEN Str(publicPath)
    ELSE IF routerBaseMatch(publicPath).ok
           THEN Str(formatPublicPath(routerBaseMatch(publicPath).g5))
           ELSE Throws

\* cfg.build.vueRouterBase of #computeConfig
vueRouterBase(userBase, publicPath) ==
  IF userBase # NoBase THEN userBase ELSE formatRouterBase(publicPath)

\* a public path that is formatted for every target
buildPublicPathAnyMode(publicPath, modeName) ==
  IF publicPath # <<>> THEN formatPublicPath(publicPath)
  ELSE IF modeName \in {"capacitor", "cordova", "electron", "bex"}
         THEN <<>> ELSE <<"/">>

\* cfg.build.publicPath of #computeConfig
buildPublicPath(publicPath, modeName) ==
  IF publicPath # <<>> /\ modeName \in {"spa", "pwa", "ssr"}
    THEN formatPublicPath(publicPath)
    ELSE IF modeName \in {"capacitor", "cordova", "electron", "bex"}
           THEN <<>> ELSE <<"/">>

(***************************************************************************)
(* Lists of the user config                                                *)
(***************************************************************************)
\* the i-th element of s is its first occurrence
FirstAt(s, i) == \A j \in 1..(i - 1) : s[j] # s[i]

\* the elements of s at the indexes in keep, in the order of s
AtIndexes(s, keep) ==
  [k \in 1..Cardinality(keep) |->
     s[CHOOSE i \in keep : Cardinality({j \in keep : j <= i}) = k]]

\* a deduplication that keeps the last occurrence of each element
getUniqueArrayKeepsLast(original) ==
  AtIndexes(original,
            {i \in 1..Len(original) :
               \A j \in (i + 1)..Len(original) : original[j] # original[i]})

\* getUniqueArray: Array.from(new Set(original)); a Set keeps the order of
\* first insertion
getUniqueArray(original) ==
  AtIndexes(original, {i \in 1..Len(original) : FirstAt(original, i)})

\* quasarComponentRE = /^(Q[A-Z]|q-)/
quasarComponentRETest(str) ==
  \/ Len(str) >= 2 /\ str[1] = "Q"
       /\ str[2] \in {"A", "B", "C", "D", "E", "F", "G", "H", "I", "J", "K", "L", "M",
                      "N", "O", "P", "Q", "R", "S", "T", "U", "V", "W", "X", "Y", "Z"}
  \/ startsWith(str, <<"q", "-">>)

\* cfg.framework.components with the spinners of config.loading and
\* config.notify pushed (<<>>: no spinner configured), then deduplicated
frameworkComponents(components, loading, notify) ==
  getUniqueArray(
    components
      \o (IF loading # <<>> /\ quasarComponentRETest(loading) THEN <<loading>> ELSE <<>>)
      \o (IF notify # <<>> /\ quasarComponentRETest(notify) THEN <<notify>> ELSE <<>>))

\* the path of an asset: undefined or a string
NoPath == [kind |-> "undefined", value |-> <<>>]

\* the roots of the asset fields
srcCss == <<"s", "r", "c", "/", "c", "s", "s">>
boot == <<"b", "o", "o", "t">>
appSrcSsrMiddlewares ==
  <<"a", "p", "p", "/", "s", "r", "c", "-", "s", "s", "r", "/",
    "m", "i", "d", "d", "l", "e", "w", "a", "r", "e", "s">>

\* asset[ 0 ] === '~' ? asset.substring(1) : prefix + `/${ asset }`
assetPath(prefix, asset) ==
  IF asset # <<>> /\ asset[1] = "~" THEN Drop(asset, 1)
  ELSE prefix \o <<"/">> \o asset

\* a parseAssetProperty that prefixes every path
parseAssetPropertyAlwaysPrefix(prefix, asset) ==
  IF asset.type = "objectNoPath" THEN NoPath
  ELSE Str(prefix \o <<"/">> \o asset.path)

\* parseAssetProperty(prefix)(asset): the path of the entry it returns; an
\* asset is a string, an object with a string path, or an object whose path
\* is undefined
parseAssetProperty(prefix, asset) ==
  IF asset.type = "objectNoPath" THEN NoPath
  ELSE Str(assetPath(prefix, asset.path))

\* list.filter(_ => _).map(parseAssetProperty(prefix)).filter(asset => asset.path)
\*     .filter(uniquePathFilter): the paths of the entries
parseAssets(prefix, list) ==
  LET truthy == SelectSeq(list, LAMBDA a : a.type # "falsy")
      parsed == [i \in 1..Len(truthy) |-> parseAssetProperty(prefix, truthy[i])]
      withPath == SelectSeq(parsed, LAMBDA a : a # NoPath /\ a.value # <<>>)
  IN AtIndexes(withPath, {i \in 1..Len(withPath) : FirstAt(withPath, i)})

\* cfg.ssr.middlewares: parsed for the ssr target only
ssrMiddlewares(modeName, list) ==
  IF modeName = "ssr" THEN parseAssets(appSrcSsrMiddlewares, list)
  ELSE [i \in 1..Len(list) |->
          IF list[i].type = "objectNoPath" THEN NoPath ELSE Str(list[i].path)]

NoList == [done |-> FALSE, list |-> <<>>, again |-> <<>>]

(***************************************************************************)
(* The environment variable bag (cfg.build.env)                            *)
(***************************************************************************)
\* the keys that Object.assign writes into cfg.build.env
DerivedKeys == {"NODE_ENV", "CLIENT", "SERVER", "DEV", "PROD", "DEBUGGING",
                "MODE", "VUE_ROUTER_MODE", "VUE_ROUTER_BASE"}

\* the keys of the bag: the derived ones, APP_URL, and a key of the user's own
EnvKeys == DerivedKeys \cup {"APP_URL", "API_URL"}

\* a bag gives every key the set of its values: {} when the key is absent,
\* {v} when it is present with value v
NoEnv == [k \in EnvKeys |-> {}]

\* a URL as its parts; a relative one has no scheme, hostname and port
Url(scheme, hostname, port, path) ==
  [scheme |-> scheme, hostname |-> hostname, port |-> port, path |-> path]

\* getUrl(hostname), cfg.devServer.https being unset
getUrl(hostname, port, publicPath) == Url("http", hostname, port, publicPath)

\* cfg.metaConf.debugging
debugging(dev, debug) == dev = TRUE \/ debug = TRUE

\* cfg.metaConf.APP_URL: {} when the pass computes none
metaConfAppUrl(dev, modeName, host, port, publicPath) ==
  IF dev
    THEN {getUrl(IF host = "0.0.0.0" THEN "localhost" ELSE host, port, publicPath)}
    ELSE IF modeName \in {"cordova", "capacitor", "bex"}
      THEN {Url("", "", NoPort, <<"index.html">>)}
      ELSE {}

\* the object that Object.assign copies into cfg.build.env (ctx.prod is the
\* negation of ctx.dev)
derivedEnv(dev, isDebugging, modeName, routerMode, routerBase) ==
  [NODE_ENV |-> IF ~dev THEN "production" ELSE "development",
   CLIENT |-> TRUE,
   SERVER |-> FALSE,
   DEV |-> (dev = TRUE),
   PROD |-> (~dev = TRUE),
   DEBUGGING |-> (isDebugging = TRUE),
   MODE |-> modeName,
   VUE_ROUTER_MODE |-> routerMode,
   VUE_ROUTER_BASE |-> routerBase]

\* a bag in which the values of the user config win over the derived ones
buildEnvUserWins(env, derived, appUrl) ==
  [k \in EnvKeys |->
     IF env[k] # {} THEN env[k]
     ELSE IF k \in DOMAIN derived THEN {derived[k]}
     ELSE IF k = "APP_URL" THEN appUrl
     ELSE {}]

\* cfg.build.env after Object.assign(cfg.build.env, derived) and
\* `if (cfg.metaConf.APP_URL) cfg.build.env.APP_URL = cfg.metaConf.APP_URL`
buildEnv(env, derived, appUrl) ==
  [k \in EnvKeys |->
     IF k \in DOMAIN derived THEN {derived[k]}
     ELSE IF k = "APP_URL" /\ appUrl # {} THEN appUrl
     ELSE env[k]]

NoEnvOut == [done |-> FALSE, APP_URL |-> {}, vueRouterMode |-> "none",
             vueRouterBase |-> NoBase, env |-> NoEnv]

(***************************************************************************)
(* The watch loop: helpers                                                 *)
(***************************************************************************)
\* logger.js fatal(): reports and terminates the process
fatal(p) == [p EXCEPT !.status = "exited", !.fatal = TRUE]

\* process.exit(1)
processExit(p) == [p EXCEPT !.status = "exited"]

\* a removeSync that leaves the file
removeSyncKeeps(exists) == exists

\* fse.removeSync(this.#tempFile): whether the file exists afterwards
removeSync(exists) == FALSE

\* a reuse of the cache that keeps the requested address
reuseRequested(req, a) == req

\* cfg.devServer.host / port := this.#address.to.host / port
reuseCached(req, a) == a.to

\* the guard of build.onEnd: watch() has not been issued yet
notReadyIgnoresWatching(first, watching) == FALSE

notReady(first, watching) == first = FALSE /\ watching = FALSE

\* a handler that is fatal on every cycle / on none
failOnErrorAlways(first) == TRUE
failOnErrorNever(first) == FALSE

\* the failOnError argument of this.#computeConfig(quasarConfigFn, isFirst)
failOnErrorArg(first) == first

\* a debounce that does not restart a running timer
debouncedNoRestart(t, quasarConf) ==
  IF t.left >= 0 THEN [t EXCEPT !.arg = quasarConf]
  ELSE [left |-> DebounceWait, arg |-> quasarConf]

\* a debounce that keeps the argument and starts no timer
debouncedUnarmed(t, quasarConf) == [left |-> -1, arg |-> quasarConf]

\* this.#opts.watch(quasarConf), with #opts.watch = debounce(watch, 550):
\* (re)start the timer, keep the latest argument
debounced(t, quasarConf) == [left |-> DebounceWait, arg |-> quasarConf]

\* cfg.devServer.host before negotiation
requestedHost(optsHost, cfgHost) ==
  IF optsHost # NoHost THEN optsHost
  ELSE IF cfgHost = NoHost THEN "0.0.0.0" ELSE cfgHost

\* a default port without the offset of SSR + PWA
requestedPortNoOffset(optsPort, cfgPort, modeName, ssrPwa) ==
  IF optsPort # NoPort THEN optsPort
  ELSE IF cfgPort = NoPort THEN defaultPortMapping[modeName] ELSE cfgPort

\* cfg.devServer.port before negotiation
requestedPort(optsPort, cfgPort, modeName, ssrPwa) ==
  IF optsPort # NoPort THEN optsPort
  ELSE IF cfgPort = NoPort
         THEN defaultPortMapping[modeName]
                + (IF modeName = "ssr" /\ ssrPwa THEN SsrPwaPortOffset ELSE 0)
         ELSE cfgPort

\* a cache test that looks at the host only
addressCachedHostOnly(a, req) == a.set /\ a.from.host = req.host

\* this.#address && this.#address.from.host === host && this.#address.from.port === port
addressCached(a, req) ==
  a.set /\ a.from.host = req.host /\ a.from.port = req.port

\* getExternalIP() is asked for the address of a device target whose host is
\* empty or local
needsExternalIP(req, modeName) ==
  modeName \in {"cordova", "capacitor"}
    /\ (req.host = NoHost \/ req.host \in localHostList)

\* an onAddress that forgets that it has run
onAddressForgetful(req, modeName, probe, extHost, running) ==
  LET device == needsExternalIP(req, modeName)
      ip   == IF ~device THEN "none"
              ELSE IF extHost # NoHost THEN "cached" ELSE "called"
      host == IF device
                THEN (IF extHost # NoHost THEN extHost ELSE ExternalIP)
                ELSE req.host
      ext  == IF device THEN host ELSE extHost
  IN IF probe.ok
       THEN [exit |-> FALSE, null |-> FALSE,
             to |-> [host |-> host, port |-> req.port + probe.delta],
             cachedExternalHost |-> ext, addressRunning |-> running, ip |-> ip]
       ELSE [exit |-> running = FALSE, null |-> running # FALSE, to |-> NoPair,
             cachedExternalHost |-> ext, addressRunning |-> running, ip |-> ip]

\* an onAddress that asks getExternalIP() every time
onAddressAlwaysAsks(req, modeName, probe, extHost, running) ==
  LET device == needsExternalIP(req, modeName)
      ip   == IF device THEN "called" ELSE "none"
      host == IF device THEN ExternalIP ELSE req.host
      ext  == IF device THEN host ELSE extHost
  IN IF probe.ok
       THEN [exit |-> FALSE, null |-> FALSE,
             to |-> [host |-> host, port |-> req.port + probe.delta],
             cachedExternalHost |-> ext, addressRunning |-> TRUE, ip |-> ip]
       ELSE [exit |-> running = FALSE, null |-> running # FALSE, to |-> NoPair,
             cachedExternalHost |-> ext, addressRunning |-> running, ip |-> ip]

\* onAddress({ host, port }, mode), given what findClosestOpenPort answers;
\* ip tells whether getExternalIP() was called, the cached external host was
\* used, or neither
onAddress(req, modeName, probe, extHost, running) ==
  LET device == needsExternalIP(req, modeName)
      ip   == IF ~device THEN "none"
              ELSE IF extHost # NoHost THEN "cached" ELSE "called"
      host == IF device
                THEN (IF extHost # NoHost THEN extHost ELSE ExternalIP)
                ELSE req.host
      ext  == IF device THEN host ELSE extHost
  IN IF probe.ok
       THEN [exit |-> FALSE, null |-> FALSE,
             to |-> [host |-> host, port |-> req.port + probe.delta],
             cachedExternalHost |-> ext, addressRunning |-> TRUE, ip |-> ip]
       ELSE [exit |-> running = FALSE, null |-> running # FALSE, to |-> NoPair,
             cachedExternalHost |-> ext, addressRunning |-> running, ip |-> ip]

\* the objects a quasar.config factory may return
UserCfgs(modeName) ==
  [host : UserHosts, port : UserPorts,
   ssrPwa : IF modeName = "ssr" THEN BOOLEAN ELSE {FALSE}, open : {"unset"}]

\* a test that takes null for an object
isObjectTypeof(res) == res # "primitive"

\* Object(userCfg) === userCfg
isObject(res) == res \notin {"null", "primitive"}

\* a gate whose answer is not looked at
gateIgnored(result) == TRUE

\* appFilesValidations(appPaths) === false is the failure
gatePassed(result) == result # FALSE

\* a mode flag that is set and never cleared
modePwaSticky(modeName, pwa, ssrPwa) ==
  IF modeName = "ssr" THEN pwa \/ ssrPwa ELSE pwa

\* this.#ctx.mode.pwa after `this.#ctx.mode.pwa = cfg.ctx.mode.pwa = cfg.ssr.pwa === true`,
\* which the ssr target runs
modePwa(modeName, pwa, ssrPwa) ==
  IF modeName = "ssr" THEN ssrPwa ELSE pwa

\* cfg.devServer = merge({ open: true }, cfg.devServer, to): devServer.open
mergeOpen(open) == IF open = "unset" THEN "true" ELSE open

\* cfg.metaConf.openBrowser, from cfg.devServer.open
openBrowser(dev, modeName, open) ==
  IF dev /\ modeName \notin {"cordova", "capacitor", "electron"} /\ open # "unset"
    THEN (IF ~isMinimalTerminal THEN open ELSE "false")
    ELSE "unset"

\* the steps of a successful cycle, in the order of the code; the negotiator
\* is part of it when the pass calls it
Steps(negotiates) ==
  <<"compile", "load", "normalize", "factory", "merge", "hooks", "extend">>
    \o (IF negotiates THEN <<"address">> ELSE <<>>) \o <<"gate", "validate">>

NoPass == [n |-> 0, req |-> NoPair, before |-> NoAddress, probed |-> FALSE,
           probeFailed |-> FALSE, result |-> "none", everBefore |-> FALSE,
           host |-> NoHost, port |-> NoPort, ip |-> "none"]

\* a cycle: the steps it did, what the factory returned (ret), what the gate
\* answered (gate), openBrowser of the config it returned (out), how it ended
NewCycle(n) == [n |-> n, did |-> <<>>, watching |-> FALSE, kind |-> "running",
                end |-> "none", ret |-> "none", gate |-> "none", out |-> "none"]

NoTimer == [left |-> -1, arg |-> NoCfg]
NoApply == [cfg |-> 0, wait |-> 0, last |-> 0]

\* a timer that is due fires before anything else runs
Running == proc.status = "running" /\ timer.left # 0


(***************************************************************************)
(* The state after construction                                            *)
(***************************************************************************)
NormIdle ==
  /\ nIn = [publicPath |-> <<>>, modeName |-> "spa", vueRouterMode |-> "none",
            vueRouterBase |-> NoBase]
  /\ nOut = NoDerived

ListIdle ==
  /\ lIn = [field |-> "extras", modeName |-> "spa", list |-> <<>>,
            loading |-> <<>>, notify |-> <<>>]
  /\ lOut = NoList

EnvIdle ==
  /\ eIn = [dev |-> TRUE, debug |-> FALSE, modeName |-> "spa", host |-> NoHost,
            vueRouterMode |-> "none", vueRouterBase |-> NoBase, env |-> NoEnv]
  /\ eOut = NoEnvOut

\* the constructor's arguments: the Context and the options
InitSession ==
  /\ \E dev \in BOOLEAN, modeName \in Modes :
       ctx = [dev |-> dev, modeName |-> modeName, pwa |-> (modeName = "pwa")]
  /\ \E cli \in CliArgs, verifyAddress \in BOOLEAN, watch \in BOOLEAN :
       opts = [host |-> cli.host, port |-> cli.port,
               verifyAddress |-> verifyAddress, watch |-> watch]

InitState ==
  /\ isWatching = FALSE
  /\ address = NoAddress
  /\ addressRunning = FALSE
  /\ cachedExternalHost = NoHost
  /\ tempFile = FALSE
  /\ isFirst = TRUE
  /\ firstBuildIsDone = "undefined"
  /\ readPc = "new"
  /\ pc = "idle"
  /\ cycle = 0
  /\ failOnError = TRUE
  /\ cur = NoUserCfg
  /\ timer = NoTimer
  /\ proc = [status |-> "running", fatal |-> FALSE]
  /\ resolved = <<>>
  /\ cyc = NewCycle(0)
  /\ fruitless = {}
  /\ firstSuccess = 0
  /\ lastPass = NoPass
  /\ everNegotiated = FALSE
  /\ addressOut = "none"
  /\ sinceCall = -1
  /\ lastCall = 0
  /\ bursts = 0
  /\ applied = 0
  /\ lastApplied = NoApply

Init == InitSession /\ InitState /\ NormIdle /\ ListIdle /\ EnvIdle

(***************************************************************************)
(* read(), watch() and esbuild's watch() start-up call                     *)
(***************************************************************************)
\* read(): #buildAndWatch up to `await esbuildCtx.watch()`, or #build
Read ==
  /\ Running
  /\ readPc = "new"
  /\ readPc' = IF opts.watch THEN "startingWatch" ELSE "oneShot"
  /\ UNCHANGED <<ctx, opts, isWatching, address, addressRunning, cachedExternalHost,
                 tempFile, isFirst, firstBuildIsDone, pc, cycle, failOnError, cur,
                 timer, proc, resolved, cyc, fruitless, firstSuccess, lastPass,
                 everNegotiated, sinceCall, lastCall, bursts, applied, lastApplied,
                 addressOut, normVars>>

\* `await esbuildCtx.watch()` returns: the promise of read() is created and its
\* resolver assigned
WatchStarted ==
  /\ Running
  /\ readPc = "startingWatch"
  /\ readPc' = "promisePending"
  /\ firstBuildIsDone' = "res"
  /\ UNCHANGED <<ctx, opts, isWatching, address, addressRunning, cachedExternalHost,
                 tempFile, isFirst, pc, cycle, failOnError, cur, timer, proc,
                 resolved, cyc, fruitless, firstSuccess, lastPass, everNegotiated,
                 sinceCall, lastCall, bursts, applied, lastApplied,
                 addressOut, normVars>>

\* watch()
Watch ==
  /\ Running
  /\ isWatching = FALSE
  /\ isWatching' = TRUE
  /\ UNCHANGED <<ctx, opts, address, addressRunning, cachedExternalHost, tempFile,
                 isFirst, firstBuildIsDone, readPc, pc, cycle, failOnError, cur,
                 timer, proc, resolved, cyc, fruitless, firstSuccess, lastPass,
                 everNegotiated, sinceCall, lastCall, bursts, applied, lastApplied,
                 addressOut, normVars>>

(***************************************************************************)
(* One build cycle                                                         *)
(***************************************************************************)
\* the cycle ends in a failure: fatal(msg, 'FAIL'), or warn(msg) and return
Stop(c, kind, isFatal) ==
  /\ cyc' = [c EXCEPT !.kind = kind, !.end = IF isFatal THEN "exit" ELSE "return"]
  /\ proc' = IF isFatal THEN fatal(proc) ELSE proc
  /\ pc' = IF isFatal THEN "exited" ELSE "idle"
  /\ fruitless' = fruitless \cup {cycle}

\* esbuild starts a build: the one of #build, the first one of watch mode,
\* or a rebuild after a change of the file (build.onStart)
BuildStart ==
  /\ Running
  /\ pc = "idle"
  /\ cycle < MaxCycles
  /\ \/ readPc \in {"startingWatch", "promisePending"}
     \/ readPc = "oneShot" /\ cycle = 0
  /\ cycle' = cycle + 1
  /\ pc' = "building"
  /\ cyc' = NewCycle(cycle + 1)
  /\ lastPass' = [NoPass EXCEPT !.before = address]
  /\ cur' = NoUserCfg
  /\ UNCHANGED <<ctx, opts, isWatching, address, addressRunning, cachedExternalHost,
                 tempFile, isFirst, firstBuildIsDone, readPc, failOnError,
                 timer, proc, resolved, fruitless, firstSuccess,
                 everNegotiated, sinceCall, lastCall, bursts, applied, lastApplied,
                 addressOut, normVars>>

\* esbuild ends the build (the artifact is written when there are no errors):
\* build.onEnd up to the import of the artifact, or #build up to its import
BuildEnd ==
  /\ Running
  /\ pc = "building"
  /\ \E errors \in BOOLEAN :
       LET c == [cyc EXCEPT !.watching = isWatching] IN
       IF opts.watch /\ notReady(isFirst, isWatching)
         THEN /\ tempFile' = (IF errors THEN tempFile ELSE TRUE)
              /\ cyc' = [c EXCEPT !.kind = "discarded", !.end = "return"]
              /\ pc' = "idle"
              /\ fruitless' = fruitless \cup {cycle}
              /\ proc' = proc
         ELSE IF errors
           THEN /\ tempFile' = removeSync(tempFile)
                /\ Stop(c, "compileError", IF opts.watch THEN isFirst ELSE TRUE)
           ELSE /\ tempFile' = TRUE
                /\ cyc' = [c EXCEPT !.did = Append(@, "compile")]
                /\ pc' = "import"
                /\ UNCHANGED <<proc, fruitless>>
  /\ UNCHANGED <<ctx, opts, isWatching, address, addressRunning, cachedExternalHost,
                 isFirst, firstBuildIsDone, readPc, cycle, failOnError, cur, timer,
                 resolved, firstSuccess, lastPass, everNegotiated, sinceCall,
                 lastCall, bursts, applied, lastApplied,
                 addressOut, normVars>>

\* the import / require of the artifact ends; #computeConfig runs up to
\* `await quasarConfigFn(ctx)`
ImportEnd ==
  /\ Running
  /\ pc = "import"
  /\ \E res \in {"throws", "notFunction", "function"} :
       LET c   == [cyc EXCEPT !.did = @ \o <<"load", "normalize">>]
           foe == IF opts.watch THEN failOnErrorArg(isFirst) ELSE TRUE
       IN
       IF res = "throws"
         THEN /\ Stop(cyc, "importError", IF opts.watch THEN isFirst ELSE TRUE)
              /\ UNCHANGED <<tempFile, failOnError>>
         ELSE /\ failOnError' = foe
              /\ IF res = "notFunction"
                   THEN /\ tempFile' = removeSync(tempFile)
                        /\ Stop(c, "notFunction", foe)
                   ELSE /\ cyc' = [c EXCEPT !.did = Append(@, "factory")]
                        /\ pc' = "factory"
                        /\ UNCHANGED <<tempFile, proc, fruitless>>
  /\ UNCHANGED <<ctx, opts, isWatching, address, addressRunning, cachedExternalHost,
                 isFirst, firstBuildIsDone, readPc, cycle, cur, timer, resolved,
                 firstSuccess, lastPass, everNegotiated, sinceCall, lastCall,
                 bursts, applied, lastApplied,
                 addressOut, normVars>>

\* the factory returns, throws or rejects; #computeConfig runs up to
\* `await runAppExtensionHook('extendQuasarConf', ...)`
FactoryEnd ==
  /\ Running
  /\ pc = "factory"
  /\ \E res \in FactoryResults, userCfg \in UserCfgs(ctx.modeName) :
       LET c == [cyc EXCEPT !.ret = res] IN
       IF res = "throws"
         THEN /\ Stop(c, "factoryThrows", failOnError)
              /\ UNCHANGED <<tempFile, cur>>
         ELSE IF ~isObject(res)
           THEN /\ tempFile' = removeSync(tempFile)
                /\ Stop(c, "notObject", failOnError)
                /\ UNCHANGED cur
           ELSE /\ tempFile' = removeSync(tempFile)
                /\ cur' = userCfg
                /\ cyc' = [c EXCEPT !.did = @ \o <<"merge", "hooks">>]
                /\ pc' = "extend"
                /\ UNCHANGED <<proc, fruitless>>
  /\ UNCHANGED <<ctx, opts, isWatching, address, addressRunning, cachedExternalHost,
                 isFirst, firstBuildIsDone, readPc, cycle, failOnError, timer,
                 resolved, firstSuccess, lastPass, everNegotiated, sinceCall,
                 lastCall, bursts, applied, lastApplied,
                 addressOut, normVars>>


\* the extension hooks end; #computeConfig computes the requested dev-server
\* address and consults the cached negotiation, up to `await onAddress(...)`
\* when there is one, else up to the validation gate
ExtendEnd ==
  /\ Running
  /\ pc = "extend"
  /\ \/ /\ Stop(cyc, "extensionThrows", failOnError)
        /\ UNCHANGED <<cur, address, lastPass, addressOut>>
     \/ /\ IF ctx.dev /\ ctx.modeName # "bex"
             THEN LET req == [host |-> requestedHost(opts.host, cur.host),
                              port |-> requestedPort(opts.port, cur.port,
                                                     ctx.modeName, cur.ssrPwa)]
                      pass == [NoPass EXCEPT !.n = cycle, !.req = req,
                                             !.before = address,
                                             !.everBefore = everNegotiated]
                  IN IF addressCached(address, req)
                       THEN /\ cur' = [cur EXCEPT !.host = reuseCached(req, address).host,
                                                  !.port = reuseCached(req, address).port]
                            /\ lastPass' = [pass EXCEPT !.result = "cached",
                                                        !.host = cur'.host,
                                                        !.port = cur'.port]
                            /\ pc' = "validate"
                            /\ UNCHANGED <<address, addressOut>>
                       ELSE IF opts.verifyAddress
                         THEN /\ cur' = [cur EXCEPT !.host = req.host,
                                                    !.port = req.port]
                              /\ lastPass' = [pass EXCEPT !.result = "pending",
                                                          !.probed = TRUE]
                              /\ pc' = "onAddress"
                              /\ UNCHANGED <<address, addressOut>>
                         ELSE /\ cur' = [cur EXCEPT !.host = req.host,
                                                    !.port = req.port,
                                                    !.open = mergeOpen(@)]
                              /\ address' = [set |-> TRUE, from |-> req, to |-> req]
                              /\ addressOut' = "none"
                              /\ lastPass' = [pass EXCEPT !.result = "unverified",
                                                          !.host = req.host,
                                                          !.port = req.port]
                              /\ pc' = "validate"
             ELSE /\ pc' = "validate"
                  /\ UNCHANGED <<cur, address, lastPass, addressOut>>
        /\ cyc' = [cyc EXCEPT !.did = Append(@, "extend")]
        /\ UNCHANGED <<proc, fruitless>>
  /\ UNCHANGED <<ctx, opts, isWatching, addressRunning, cachedExternalHost,
                 tempFile, isFirst, firstBuildIsDone, readPc, cycle, failOnError,
                 timer, resolved, firstSuccess, everNegotiated, sinceCall,
                 lastCall, bursts, applied, lastApplied, normVars>>

\* onAddress ends (findClosestOpenPort has answered); #computeConfig treats its
\* result and runs up to the validation gate
AddressEnd ==
  /\ Running
  /\ pc = "onAddress"
  /\ \E probe \in Probes :
       LET req == [host |-> cur.host, port |-> cur.port]
           r   == onAddress(req, ctx.modeName, probe, cachedExternalHost,
                            addressRunning)
           pass == [lastPass EXCEPT !.probeFailed = ~probe.ok, !.ip = r.ip]
       IN
       /\ cachedExternalHost' = r.cachedExternalHost
       /\ addressRunning' = r.addressRunning
       /\ IF r.exit
            THEN /\ proc' = processExit(proc)
                 /\ pc' = "exited"
                 /\ cyc' = [cyc EXCEPT !.kind = "networkError", !.end = "exit"]
                 /\ fruitless' = fruitless \cup {cycle}
                 /\ lastPass' = [pass EXCEPT !.result = "exit"]
                 /\ UNCHANGED <<cur, address, everNegotiated, addressOut>>
            ELSE IF r.null
              THEN /\ Stop(cyc, "networkNull", failOnError)
                   /\ lastPass' = [pass EXCEPT !.result = "null"]
                   /\ UNCHANGED <<cur, address, everNegotiated, addressOut>>
              ELSE /\ cur' = [cur EXCEPT !.host = r.to.host, !.port = r.to.port,
                                         !.open = mergeOpen(@)]
                   /\ address' = [set |-> TRUE, from |-> req, to |-> r.to]
                   /\ addressOut' = "none"
                   /\ lastPass' = [pass EXCEPT !.result = "ok",
                                               !.host = r.to.host,
                                               !.port = r.to.port]
                   /\ everNegotiated' = TRUE
                   /\ pc' = "validate"
                   /\ cyc' = [cyc EXCEPT !.did = Append(@, "address")]
                   /\ UNCHANGED <<proc, fruitless>>
  /\ UNCHANGED <<ctx, opts, isWatching, tempFile, isFirst, firstBuildIsDone,
                 readPc, cycle, failOnError, timer, resolved, firstSuccess,
                 sinceCall, lastCall, bursts, applied, lastApplied, normVars>>

\* the validation gate and the rest of #computeConfig; then the tail of
\* build.onEnd (resolve the promise of read(), or schedule the apply callback),
\* or the return of #build
Finish ==
  /\ Running
  /\ pc = "validate"
  /\ \E valid \in BOOLEAN, workboxOk \in BOOLEAN :
       LET ctx1 == [ctx EXCEPT !.pwa = modePwa(ctx.modeName, ctx.pwa, cur.ssrPwa)]
           quasarConf == [cycle |-> cycle, host |-> cur.host, port |-> cur.port,
                          openBrowser |-> openBrowser(ctx.dev, ctx.modeName,
                                                      cur.open)]
           c0 == [cyc EXCEPT !.gate = IF valid THEN "passed" ELSE "failed",
                             !.did = Append(@, "gate")]
           c1 == [c0 EXCEPT !.did = Append(@, "validate")]
           c2 == [c1 EXCEPT !.out = quasarConf.openBrowser]
       IN
       IF ~gatePassed(valid)
         THEN /\ Stop(c0, "validationFalse", failOnError)
              /\ UNCHANGED <<ctx, isFirst, resolved, timer, firstSuccess, sinceCall,
                             lastCall, bursts, addressOut>>
         ELSE
           /\ ctx' = ctx1
           /\ IF ctx1.pwa /\ ~workboxOk
                THEN /\ Stop(c1, "workboxInvalid", failOnError)
                     /\ UNCHANGED <<isFirst, resolved, timer, firstSuccess,
                                    sinceCall, lastCall, bursts, addressOut>>
                ELSE
                  /\ firstSuccess' = IF firstSuccess = 0 THEN cycle ELSE firstSuccess
                  /\ addressOut' = IF lastPass.n = cycle
                                        /\ lastPass.result \in {"ok", "unverified"}
                                     THEN quasarConf.openBrowser ELSE addressOut
                  /\ pc' = "idle"
                  /\ UNCHANGED <<proc, fruitless>>
                  /\ IF ~opts.watch
                       THEN /\ resolved' = Append(resolved, quasarConf)
                            /\ cyc' = [c2 EXCEPT !.kind = "returned", !.end = "return"]
                            /\ UNCHANGED <<isFirst, timer, sinceCall, lastCall, bursts>>
                       ELSE IF isFirst
                         THEN /\ isFirst' = FALSE
                              /\ IF firstBuildIsDone = "res"
                                   THEN /\ resolved' = Append(resolved, quasarConf)
                                        /\ cyc' = [c2 EXCEPT !.kind = "resolved",
                                                             !.end = "return"]
                                   ELSE \* firstBuildIsDone is not a function
                                        /\ resolved' = resolved
                                        /\ cyc' = [c2 EXCEPT !.kind = "noResolver",
                                                             !.end = "throw"]
                              /\ UNCHANGED <<timer, sinceCall, lastCall, bursts>>
                         ELSE /\ timer' = debounced(timer, quasarConf)
                              /\ cyc' = [c2 EXCEPT !.kind = "scheduled",
                                                   !.end = "return"]
                              /\ bursts' = IF sinceCall = -1 \/ sinceCall >= DebounceWait
                                             THEN bursts + 1 ELSE bursts
                              /\ sinceCall' = 0
                              /\ lastCall' = cycle
                              /\ UNCHANGED <<isFirst, resolved>>
  /\ UNCHANGED <<opts, isWatching, address, addressRunning, cachedExternalHost,
                 tempFile, firstBuildIsDone, readPc, cycle, failOnError, cur,
                 lastPass, everNegotiated, applied, lastApplied, normVars>>

(***************************************************************************)
(* Time and the debounce timer                                             *)
(***************************************************************************)
\* time passes, at most up to the moment the timer is due
Tick ==
  /\ Running
  /\ timer.left > 0 \/ (sinceCall >= 0 /\ sinceCall < DebounceWait)
  /\ LET dt == IF timer.left > 0 THEN Min(TimeStep, timer.left) ELSE TimeStep IN
       /\ timer' = IF timer.left > 0 THEN [timer EXCEPT !.left = @ - dt] ELSE timer
       /\ sinceCall' = IF sinceCall >= 0 THEN Min(sinceCall + dt, DebounceWait)
                       ELSE sinceCall
  /\ UNCHANGED <<ctx, opts, isWatching, address, addressRunning, cachedExternalHost,
                 tempFile, isFirst, firstBuildIsDone, readPc, pc, cycle, failOnError,
                 cur, proc, resolved, cyc, fruitless, firstSuccess, lastPass,
                 everNegotiated, lastCall, bursts, applied, lastApplied,
                 addressOut, normVars>>

\* a timer that a failed cycle has cancelled
TimerFireUnlessFailed ==
  /\ proc.status = "running"
  /\ timer.left = 0
  /\ cyc.n \notin fruitless
  /\ timer' = NoTimer
  /\ applied' = applied + 1
  /\ lastApplied' = [cfg |-> timer.arg.cycle, wait |-> sinceCall, last |-> lastCall]
  /\ UNCHANGED <<ctx, opts, isWatching, address, addressRunning, cachedExternalHost,
                 tempFile, isFirst, firstBuildIsDone, readPc, pc, cycle, failOnError,
                 cur, proc, resolved, cyc, fruitless, firstSuccess, lastPass,
                 everNegotiated, sinceCall, lastCall, bursts,
                 addressOut, normVars>>

\* the timer is due: the apply callback is invoked with the latest argument
TimerFire ==
  /\ proc.status = "running"
  /\ timer.left = 0
  /\ timer' = NoTimer
  /\ applied' = applied + 1
  /\ lastApplied' = [cfg |-> timer.arg.cycle, wait |-> sinceCall, last |-> lastCall]
  /\ UNCHANGED <<ctx, opts, isWatching, address, addressRunning, cachedExternalHost,
                 tempFile, isFirst, firstBuildIsDone, readPc, pc, cycle, failOnError,
                 cur, proc, resolved, cyc, fruitless, firstSuccess, lastPass,
                 everNegotiated, sinceCall, lastCall, bursts,
                 addressOut, normVars>>

Next ==
  \/ Read
  \/ WatchStarted
  \/ Watch
  \/ BuildStart
  \/ BuildEnd
  \/ ImportEnd
  \/ FactoryEnd
  \/ ExtendEnd
  \/ AddressEnd
  \/ Finish
  \/ Tick
  \/ TimerFire

Spec == Init /\ [][Next]_vars

(***************************************************************************)
(* A watch session in which time passes and due timers fire                *)
(***************************************************************************)
\* a development session of the pwa target in watch mode (the target in which
\* a pass can fail at every step)
InitLive ==
  /\ ctx = [dev |-> TRUE, modeName |-> "pwa", pwa |-> TRUE]
  /\ opts = [host |-> NoHost, port |-> NoPort, verifyAddress |-> TRUE,
             watch |-> TRUE]
  /\ InitState /\ NormIdle /\ ListIdle /\ EnvIdle

\* the event loop lets time pass while a timer is pending and runs the
\* callback of a timer that is due
SpecLive == InitLive /\ [][Next]_vars /\ WF_vars(Tick) /\ WF_vars(TimerFire)


(***************************************************************************)
(* The pure normalization helpers on drawn inputs                          *)
(***************************************************************************)
PathChars == {"a", "/", "?", ":", "8"}

PathTails == UNION {[1..n -> PathChars] : n \in 0..MaxPathLen}

PathPrefixes ==
  { <<>>,
    <<"h", "t", "t", "p", ":", "/", "/">>,
    <<"h", "t", "t", "p", "s", ":", "/", "/">>,
    <<"H", "T", "T", "P", "S", ":", "/", "/">>,
    <<"h", "t", "t", "p", "S", ":", "/", "/">>,
    <<"h", "t", "t", "p", ":">>,
    <<"h", "t", "t", "p", "x", ":", "/", "/">> }

\* the build.publicPath values a quasar.config may return (<<>>: none)
PublicPaths == {p \o t : p \in PathPrefixes, t \in PathTails}

InitNorm ==
  /\ ctx = [dev |-> TRUE, modeName |-> "spa", pwa |-> FALSE]
  /\ opts = [host |-> NoHost, port |-> NoPort, verifyAddress |-> TRUE,
             watch |-> TRUE]
  /\ InitState
  /\ nIn \in [publicPath : PublicPaths, modeName : Modes,
               vueRouterMode : RouterModes, vueRouterBase : RouterBases]
  /\ nOut = NoDerived
  /\ ListIdle
  /\ EnvIdle

\* the normalization pass derives the router mode, the public path and the
\* router base; `again` is the public path derived from the derived one
Normalize ==
  /\ nOut.done = FALSE
  /\ LET publicPath == buildPublicPath(nIn.publicPath, nIn.modeName) IN
       nOut' = [done |-> TRUE,
                vueRouterMode |-> vueRouterMode(nIn.modeName, nIn.vueRouterMode),
                publicPath |-> publicPath,
                again |-> buildPublicPath(publicPath, nIn.modeName),
                vueRouterBase |-> vueRouterBase(nIn.vueRouterBase, publicPath)]
  /\ UNCHANGED <<mainVars, nIn, lIn, lOut, eIn, eOut>>

NextNorm == Normalize

SpecNorm == InitNorm /\ [][NextNorm]_vars

(***************************************************************************)
(* The list fields on drawn inputs                                         *)
(***************************************************************************)
UniqueFields == {"extras", "animations", "components", "directives", "plugins"}
AssetFields == {"css", "boot", "middlewares"}

\* the elements of the lists that are deduplicated
ListElems == {<<"a">>, <<"b">>, <<"Q", "S">>}
\* framework.config.loading.spinner / notify.spinner (<<>>: none)
LoadingSpinners == {<<>>, <<"Q", "S">>, <<"Q", "s">>}
NotifySpinners == {<<>>, <<"q", "-", "s">>}

Lists(S, n) == UNION {[1..k -> S] : k \in 0..n}

\* the entries of css, boot and ssr.middlewares
Assets ==
  [type : {"string"},
   path : {<<"a">>, <<"b">>, <<"~">>, <<"~", "a">>,
           <<"~", "s", "r", "c", "/", "c", "s", "s", "/", "a">>}]
    \cup [type : {"object"}, path : {<<>>, <<"a">>, <<"~", "a">>}]
    \cup [type : {"objectNoPath", "falsy"}, path : {<<>>}]

InitLists ==
  /\ ctx = [dev |-> TRUE, modeName |-> "spa", pwa |-> FALSE]
  /\ opts = [host |-> NoHost, port |-> NoPort, verifyAddress |-> TRUE,
             watch |-> TRUE]
  /\ InitState
  /\ NormIdle
  /\ EnvIdle
  /\ \/ lIn \in [field : UniqueFields \ {"components"}, modeName : {"spa"},
                  list : Lists(ListElems, MaxListLen),
                  loading : {<<>>}, notify : {<<>>}]
     \/ lIn \in [field : {"components"}, modeName : {"spa"},
                  list : Lists(ListElems, MaxListLen),
                  loading : LoadingSpinners, notify : NotifySpinners]
     \/ lIn \in [field : AssetFields \ {"middlewares"}, modeName : {"spa"},
                  list : Lists(Assets, MaxAssets),
                  loading : {<<>>}, notify : {<<>>}]
     \/ lIn \in [field : {"middlewares"}, modeName : {"spa", "ssr"},
                  list : Lists(Assets, MaxAssets),
                  loading : {<<>>}, notify : {<<>>}]
  /\ lOut = NoList

\* the pass deduplicates extras, animations and the framework lists
Dedup ==
  /\ lOut.done = FALSE
  /\ lIn.field \in UniqueFields
  /\ LET list == IF lIn.field = "components"
                   THEN frameworkComponents(lIn.list, lIn.loading, lIn.notify)
                   ELSE getUniqueArray(lIn.list)
     IN lOut' = [done |-> TRUE, list |-> list, again |-> getUniqueArray(list)]
  /\ UNCHANGED <<mainVars, nIn, nOut, lIn, eIn, eOut>>

\* the pass parses css, boot and ssr.middlewares
ParseAssets ==
  /\ lOut.done = FALSE
  /\ lIn.field \in AssetFields
  /\ LET list == CASE lIn.field = "css" -> parseAssets(srcCss, lIn.list)
                   [] lIn.field = "boot" -> parseAssets(boot, lIn.list)
                   [] lIn.field = "middlewares" ->
                        ssrMiddlewares(lIn.modeName, lIn.list)
     IN lOut' = [done |-> TRUE, list |-> list, again |-> <<>>]
  /\ UNCHANGED <<mainVars, nIn, nOut, lIn, eIn, eOut>>

NextLists == Dedup \/ ParseAssets

SpecLists == InitLists /\ [][NextLists]_vars

(***************************************************************************)
(* The environment variable bag on drawn inputs                            *)
(***************************************************************************)
\* what a user config sets a key of build.env to
UserValue(k, b) ==
  CASE k = "NODE_ENV" -> "test"
    [] k \in {"CLIENT", "SERVER", "DEV", "PROD", "DEBUGGING"} -> b
    [] k = "MODE" -> "custom"
    [] k = "VUE_ROUTER_MODE" -> "abstract"
    [] k = "VUE_ROUTER_BASE" -> Str(<<"/", "u", "/">>)
    [] k = "APP_URL" -> Url("https", "user.example", 443, <<"/">>)
    [] k = "API_URL" -> "https://api.example"

\* the sets of keys that the build.env of a user config has
UserKeySets ==
  {{}, EnvKeys, DerivedKeys, {"APP_URL"}, {"API_URL"}, {"APP_URL", "API_URL"},
   {"NODE_ENV", "MODE", "DEV", "CLIENT"},
   {"VUE_ROUTER_MODE", "VUE_ROUTER_BASE", "API_URL"}}

\* the build.env objects a quasar.config may return
UserEnvs ==
  {[k \in EnvKeys |-> IF k \in K THEN {UserValue(k, b)} ELSE {}] :
     K \in UserKeySets, b \in BOOLEAN}

InitEnv ==
  /\ ctx = [dev |-> TRUE, modeName |-> "spa", pwa |-> FALSE]
  /\ opts = [host |-> NoHost, port |-> NoPort, verifyAddress |-> TRUE,
             watch |-> TRUE]
  /\ InitState
  /\ NormIdle
  /\ ListIdle
  /\ eIn \in [dev : BOOLEAN, debug : BOOLEAN, modeName : Modes,
               host : {"0.0.0.0", "10.0.0.5"},
               vueRouterMode : RouterModes, vueRouterBase : RouterBases,
               env : UserEnvs]
  /\ eOut = NoEnvOut

\* the normalization pass derives the router mode and base, the application
\* URL and the environment variable bag
ComputeEnv ==
  /\ eOut.done = FALSE
  /\ LET publicPath == buildPublicPath(<<>>, eIn.modeName)
         routerMode == vueRouterMode(eIn.modeName, eIn.vueRouterMode)
         routerBase == vueRouterBase(eIn.vueRouterBase, publicPath)
         port == IF eIn.modeName = "bex" THEN NoPort
                 ELSE defaultPortMapping[eIn.modeName]
         appUrl == metaConfAppUrl(eIn.dev, eIn.modeName, eIn.host, port, publicPath)
         derived == derivedEnv(eIn.dev, debugging(eIn.dev, eIn.debug),
                               eIn.modeName, routerMode, routerBase)
     IN /\ routerBase # Throws
        /\ eOut' = [done |-> TRUE, APP_URL |-> appUrl,
                    vueRouterMode |-> routerMode, vueRouterBase |-> routerBase,
                    env |-> buildEnv(eIn.env, derived, appUrl)]
  /\ UNCHANGED <<mainVars, nIn, nOut, lIn, lOut, eIn>>

NextEnv == ComputeEnv

SpecEnv == InitEnv /\ [][NextEnv]_vars


(***************************************************************************)
(* Properties                                                              *)
(***************************************************************************)
\* the failures of a cycle that the handler and the normalizer report
HandlerFailures == {"compileError", "importError"}
NormalizerFailures == {"notFunction", "factoryThrows", "notObject",
                       "extensionThrows", "validationFalse", "networkNull",
                       "workboxInvalid"}
Failures == HandlerFailures \cup NormalizerFailures

\* the running / last cycle has reached its end
CycleOver == cycle > 0 /\ cyc.n = cycle /\ cyc.end # "none"

\* the cycle is a later one than the first successful cycle
AfterFirstSuccess(n) == firstSuccess # 0 /\ n > firstSuccess

\* no config of cycle n is pending in the debounce timer, was passed to the
\* debounced callback last, or was applied last
NotDelivered(n) ==
  /\ timer.arg.cycle # n
  /\ lastCall # n
  /\ applied > 0 => lastApplied.cfg # n

\* C1: in watch mode, a cycle after the first successful one that fails at any
\* step ends with the handler returning normally (no exception escapes, the
\* process keeps running), and no config of a failed cycle is ever scheduled or
\* applied.
C1_FailedCycleKeepsPreviousConfig ==
  opts.watch =>
    /\ (CycleOver /\ AfterFirstSuccess(cyc.n) /\ cyc.kind \in Failures) =>
          /\ cyc.end = "return"
          /\ proc.status = "running"
          /\ NotDelivered(cyc.n)
    /\ \A n \in fruitless : NotDelivered(n)

C1_Witness ==
  /\ opts.watch
  /\ firstSuccess = 1
  /\ lastApplied.cfg = 2
  /\ CycleOver /\ cyc.n = 3 /\ cyc.kind = "validationFalse" /\ cyc.end = "return"
  /\ proc.status = "running"

\* C2 as stated: while no build has succeeded yet, every failure (the network
\* error included) invokes fatal() and terminates the process; the normalizer
\* returns undefined only in a later build; the promise of read() is never
\* resolved with undefined.
C2_EveryFirstBuildFailureIsFatal ==
  /\ (CycleOver /\ firstSuccess = 0 /\ cyc.kind \in Failures \cup {"networkError"}) =>
        cyc.end = "exit" /\ proc.status = "exited" /\ proc.fatal
  /\ (CycleOver /\ cyc.kind \in NormalizerFailures /\ cyc.end = "return") =>
        AfterFirstSuccess(cyc.n)
  /\ \A i \in 1..Len(resolved) : resolved[i] # NoCfg

\* C2 amended: while no build has succeeded yet, every failure terminates the
\* process: through fatal() for every failure but the network error, which ends
\* the process inside the negotiator (process.exit) without fatal() being
\* called; the normalizer returns undefined only in a later build; the promise
\* of read() is never resolved with undefined.
C2_FirstBuildFailureTerminates ==
  /\ (CycleOver /\ firstSuccess = 0 /\ cyc.kind \in Failures \cup {"networkError"}) =>
        /\ cyc.end = "exit"
        /\ proc.status = "exited"
        /\ proc.fatal <=> cyc.kind # "networkError"
  /\ (CycleOver /\ cyc.kind \in NormalizerFailures /\ cyc.end = "return") =>
        AfterFirstSuccess(cyc.n)
  /\ \A i \in 1..Len(resolved) : resolved[i] # NoCfg

C2_Witness ==
  /\ CycleOver /\ firstSuccess = 0
  /\ cyc.kind = "networkError" /\ cyc.end = "exit"
  /\ proc.status = "exited" /\ ~proc.fatal

\* C3 as stated: after every terminal outcome of a cycle the transient compiled
\* artifact no longer exists.
C3_ArtifactAlwaysRemoved == CycleOver => ~tempFile

\* C3 amended: after a terminal outcome of a cycle the transient compiled
\* artifact no longer exists, unless the cycle ended with an import error or
\* with the factory throwing or rejecting (the artifact is kept), or was
\* discarded because watch() had not been called (the handler returns without
\* touching the artifact).
C3_ArtifactRemovedUnlessKept ==
  (CycleOver /\ cyc.kind \notin {"importError", "factoryThrows", "discarded"}) =>
     ~tempFile

C3_Witness ==
  /\ CycleOver /\ cyc.n = 2 /\ cyc.kind = "extensionThrows" /\ cyc.end = "return"
  /\ ~tempFile

\* C4: the successful non-initial cycles (all after watch()) that follow each
\* other by less than 550 ms form a burst; a burst is applied once, its apply is
\* pending until then, 550 ms after the last call of the burst, with the config
\* of that last call.
C4_DebounceCoalesces ==
  /\ bursts > 0 => isWatching
  /\ applied <= bursts /\ bursts <= applied + 1
  /\ applied < bursts <=> timer.left >= 0
  /\ timer.left >= 0 =>
       /\ timer.arg.cycle = lastCall
       /\ timer.left = DebounceWait - sinceCall
  /\ applied > 0 =>
       /\ lastApplied.wait = DebounceWait
       /\ lastApplied.cfg = lastApplied.last

C4_Witness ==
  /\ bursts = 1 /\ applied = 1
  /\ firstSuccess = 1 /\ cycle = 3
  /\ lastApplied = [cfg |-> 3, wait |-> DebounceWait, last |-> 3]
  /\ fruitless = {}

\* C5: in watch mode a cycle after the first successful one whose build ends
\* before watch() was called is discarded at once: nothing is loaded, the
\* factory and the normalizer do not run, and no config of it is scheduled or
\* applied, then or later.
C5_UnreadyCycleIsDiscarded ==
  opts.watch =>
    /\ (AfterFirstSuccess(cyc.n) /\ pc # "building" /\ ~cyc.watching) =>
          /\ cyc.kind = "discarded"
          /\ cyc.did = <<>>
          /\ cyc.n \in fruitless
    /\ \A n \in fruitless : NotDelivered(n)

C5_Witness ==
  /\ opts.watch /\ isWatching
  /\ firstSuccess = 1
  /\ CycleOver /\ cyc.n = 2 /\ cyc.kind = "discarded" /\ ~cyc.watching
  /\ tempFile


\* C6: in watch mode, once a cycle has succeeded the promise of read() has been
\* resolved exactly once, with the config of the first successful cycle; that
\* cycle does not call the debounced apply callback, and every later successful
\* cycle schedules the apply callback and does not resolve the promise.
C6_PromiseResolvedOnceWithFirstSuccess ==
  opts.watch =>
    /\ Len(resolved) <= 1
    /\ firstSuccess # 0 =>
         /\ Len(resolved) = 1
         /\ resolved[1].cycle = firstSuccess
         /\ NotDelivered(firstSuccess)
    /\ (CycleOver /\ AfterFirstSuccess(cyc.n) /\ cyc.n \notin fruitless) =>
         cyc.kind = "scheduled" /\ lastCall = cyc.n

\* the requested pair is the `from` pair of the negotiation cached before the pass
RequestedIsCached(pass) == pass.before.set /\ pass.before.from = pass.req

\* C7: in development mode with address verification, a pass that reaches the
\* address step calls the negotiator (the probe) exactly when no negotiation is
\* cached or the requested pair differs from the cached `from` pair; after a
\* successful probe the requested pair is the cached `from` pair, so that
\* requesting it again does not probe.
C7_ProbeIffRequestDiffers ==
  (ctx.dev /\ opts.verifyAddress /\ lastPass.n # 0) =>
    /\ lastPass.probed <=> ~RequestedIsCached(lastPass)
    /\ lastPass.result = "ok" => address.set /\ address.from = lastPass.req

C7_Witness ==
  /\ ctx.dev /\ opts.verifyAddress
  /\ lastPass.n = 3 /\ lastPass.before.set
  /\ lastPass.before.from # lastPass.req
  /\ lastPass.probed /\ lastPass.result = "ok"
  /\ address.from = lastPass.req

\* C8: a pass whose requested pair is the cached `from` pair gets the cached
\* `to` pair as dev-server host and port and leaves the cached record as it
\* was; the cached record differs from what it was when the cycle began only
\* after a pass whose requested pair was not the cached `from` pair and whose
\* negotiation succeeded.
C8_CachedNegotiationIsStable ==
  /\ (lastPass.n # 0 /\ RequestedIsCached(lastPass)) =>
        /\ lastPass.result = "cached"
        /\ lastPass.host = lastPass.before.to.host
        /\ lastPass.port = lastPass.before.to.port
        /\ address = lastPass.before
  /\ address # lastPass.before =>
        /\ lastPass.n # 0
        /\ ~RequestedIsCached(lastPass)
        /\ lastPass.result \in {"ok", "unverified"}
        /\ address = [set |-> TRUE, from |-> lastPass.req,
                      to |-> [host |-> lastPass.host, port |-> lastPass.port]]

C8_Witness ==
  /\ lastPass.n = 2 /\ lastPass.result = "cached"
  /\ lastPass.before.to.port # lastPass.req.port
  /\ lastPass.port = lastPass.before.to.port
  /\ address = lastPass.before
  /\ CycleOver /\ cyc.kind = "scheduled"

\* C9: when the probe fails, the negotiator ends the process if no probe has
\* succeeded before, and otherwise returns null; on null in a cycle after the
\* first successful one the normalizer returns undefined (the handler returns),
\* the cached negotiation is unchanged and no config of the cycle is scheduled
\* or applied.
C9_ProbeFailure ==
  lastPass.probeFailed =>
    /\ IF lastPass.everBefore
         THEN lastPass.result = "null"
         ELSE lastPass.result = "exit" /\ proc.status = "exited"
    /\ (lastPass.result = "null" /\ AfterFirstSuccess(lastPass.n)) =>
         /\ proc.status = "running"
         /\ CycleOver /\ cyc.kind = "networkNull" /\ cyc.end = "return"
         /\ address = lastPass.before
         /\ NotDelivered(cyc.n)

C9_Witness ==
  /\ lastPass.probeFailed /\ lastPass.everBefore
  /\ lastPass.result = "null" /\ lastPass.n = 2 /\ firstSuccess = 1
  /\ cyc.kind = "networkNull"
  /\ address.set /\ address = lastPass.before

\* the string starts with http:// or https://
IsAbsoluteUrl(s) ==
  \/ startsWith(s, <<"h", "t", "t", "p", ":", "/", "/">>)
  \/ startsWith(s, <<"h", "t", "t", "p", "s", ":", "/", "/">>)

WebModes == {"spa", "pwa", "ssr"}

\* C10 as stated: for a spa, pwa or ssr target a public path that is an absolute
\* URL is passed through unchanged.
C10_AbsoluteUrlUnchanged ==
  (nOut.done /\ nIn.modeName \in WebModes /\ IsAbsoluteUrl(nIn.publicPath)) =>
     nOut.publicPath = nIn.publicPath

\* C10 amended: for a spa, pwa or ssr target a public path that is an absolute
\* URL gets no leading slash; it is returned unchanged when it ends with a
\* slash, and with one slash appended otherwise.
C10_AbsoluteUrlGetsTrailingSlash ==
  (nOut.done /\ nIn.modeName \in WebModes /\ IsAbsoluteUrl(nIn.publicPath)) =>
     nOut.publicPath = IF endsWith(nIn.publicPath, <<"/">>)
                         THEN nIn.publicPath
                         ELSE nIn.publicPath \o <<"/">>

C10_Witness ==
  /\ nOut.done /\ nIn.modeName = "spa"
  /\ nIn.publicPath = <<"h", "t", "t", "p", "s", ":", "/", "/", "a", "/", "a">>
  /\ nOut.publicPath = <<"h", "t", "t", "p", "s", ":", "/", "/", "a", "/", "a", "/">>

\* the string is an absolute URL: http:// or https:// in any case of letters
IsUrlAnyCase(s) == IsAbsoluteUrl(LowerCase(s))

\* s with a slash prepended / appended unless it is there; "/" for the empty string
WithSlashes(s) ==
  IF s = <<>> THEN <<"/">>
  ELSE (IF startsWith(s, <<"/">>) THEN <<>> ELSE <<"/">>)
         \o s \o (IF endsWith(s, <<"/">>) THEN <<>> ELSE <<"/">>)

\* C11: for a spa, pwa or ssr target a public path that is not an absolute URL
\* is the configured one with a slash prepended and appended where missing, and
\* deriving the public path from the derived one returns it unchanged; with no
\* public path configured the result is "/"; for electron, cordova, capacitor
\* and bex the result is the empty string whatever is configured.
C11_PublicPathNormalized ==
  nOut.done =>
    /\ (nIn.modeName \in WebModes /\ nIn.publicPath # <<>>
          /\ ~IsUrlAnyCase(nIn.publicPath)) =>
         /\ nOut.publicPath = WithSlashes(nIn.publicPath)
         /\ startsWith(nOut.publicPath, <<"/">>)
         /\ endsWith(nOut.publicPath, <<"/">>)
         /\ nOut.again = nOut.publicPath
    /\ (nIn.modeName \in WebModes /\ nIn.publicPath = <<>>) =>
         nOut.publicPath = <<"/">>
    /\ nIn.modeName \notin WebModes => nOut.publicPath = <<>>

C11_Witness ==
  /\ nOut.done /\ nIn.modeName = "pwa"
  /\ nIn.publicPath = <<"a", "/", "a">>
  /\ nOut.publicPath = <<"/", "a", "/", "a", "/">>
  /\ nOut.again = nOut.publicPath

\* C12: the router mode is history for the ssr target, hash for electron,
\* cordova, capacitor and bex whatever the user configured, and for spa and pwa
\* the user's value, or hash when there is none.
C12_RouterMode ==
  nOut.done =>
    nOut.vueRouterMode =
      CASE nIn.modeName = "ssr" -> "history"
        [] nIn.modeName \in {"electron", "cordova", "capacitor", "bex"} -> "hash"
        [] OTHER -> IF nIn.vueRouterMode = "none" THEN "hash"
                    ELSE nIn.vueRouterMode

C12_Witness ==
  /\ nOut.done /\ nIn.modeName = "ssr" /\ nIn.vueRouterMode = "hash"
  /\ nOut.vueRouterMode = "history"

\* the path component of an absolute URL: what follows the authority, up to
\* the first ? or #
UrlPath(url) ==
  LET rest == Drop(url, IF startsWith(LowerCase(url), <<"h", "t", "t", "p", "s">>)
                          THEN 8 ELSE 7)
      path == Drop(rest, SpanNotIn(rest, {"/", "?", "#"}))
  IN SubSeq(path, 1, SpanNotIn(path, {"?", "#"}))

\* C13: when the normalized public path is an absolute URL the router base is
\* the path component of that URL with a slash prepended and appended where
\* missing; otherwise it is the user's router base, passed through.
C13_RouterBaseFromUrlElseUser ==
  nOut.done =>
    IF IsUrlAnyCase(nOut.publicPath)
      THEN nOut.vueRouterBase = Str(WithSlashes(UrlPath(nOut.publicPath)))
      ELSE nOut.vueRouterBase = nIn.vueRouterBase

\* the elements of a sequence
Range(s) == {s[i] : i \in 1..Len(s)}

NoDuplicates(s) == \A i, j \in 1..Len(s) : s[i] = s[j] => i = j

\* the index of the first occurrence of x in s
IndexOf(s, x) == CHOOSE i \in 1..Len(s) : s[i] = x /\ FirstAt(s, i)

\* the elements that out shares with in stand in out in the order of their
\* first occurrences in in
FirstOccurrenceOrder(in, out) ==
  \A i, j \in 1..Len(out) :
    (i < j /\ out[i] \in Range(in) /\ out[j] \in Range(in)) =>
       IndexOf(in, out[i]) < IndexOf(in, out[j])

\* C15: the normalized extras, animations and framework components, directives
\* and plugins have no duplicate element, contain every element of the input,
\* keep the elements in the order of their first occurrences in the input, and
\* deduplicating the result once more returns it unchanged.
C15_DedupKeepsFirstOccurrences ==
  (lOut.done /\ lIn.field \in UniqueFields) =>
    /\ NoDuplicates(lOut.list)
    /\ Range(lIn.list) \subseteq Range(lOut.list)
    /\ lIn.field # "components" => Range(lOut.list) = Range(lIn.list)
    /\ FirstOccurrenceOrder(lIn.list, lOut.list)
    /\ lOut.again = lOut.list

C15_Witness ==
  /\ lOut.done /\ lIn.field = "extras"
  /\ lIn.list = << <<"a">>, <<"b">>, <<"a">>, <<"Q", "S">>, <<"b">> >>
  /\ lOut.list = << <<"a">>, <<"b">>, <<"Q", "S">> >>

\* the root that the paths of a field are prefixed with
RootOf(field) ==
  CASE field = "css" -> srcCss
    [] field = "boot" -> boot
    [] field = "middlewares" -> appSrcSsrMiddlewares

\* the resolved path of an entry with a path: the path without its leading ~,
\* or the root, a slash and the path
Resolved(field, asset) ==
  IF startsWith(asset.path, <<"~">>) THEN Drop(asset.path, 1)
  ELSE RootOf(field) \o <<"/">> \o asset.path

\* the resolved paths of the entries of a list that have a path, in input order
ResolvedPaths(field, list) ==
  LET entries == SelectSeq(list, LAMBDA a : a.type \in {"string", "object"})
  IN [i \in 1..Len(entries) |-> Str(Resolved(field, entries[i]))]

\* the list holds the non-empty resolved paths of the input, once each, in the
\* order of their first occurrences
AssetsParsed(field, in, out) ==
  /\ NoDuplicates(out)
  /\ Range(out) = Range(ResolvedPaths(field, in)) \ {Str(<<>>)}
  /\ FirstOccurrenceOrder(ResolvedPaths(field, in), out)

\* C16 as stated: the css, boot and ssr.middlewares lists are parsed for every
\* target.
C16_AssetListsParsed ==
  (lOut.done /\ lIn.field \in AssetFields) =>
    AssetsParsed(lIn.field, lIn.list, lOut.list)

\* C16 amended: every entry of the css and boot lists, and for the ssr target
\* of the ssr.middlewares list, gets its path resolved (a leading ~ stripped,
\* otherwise the root of the field and a slash prepended); entries without a
\* path or with an empty resolved path are dropped, and of the entries with the
\* same resolved path the first is kept, in input order. For another target the
\* ssr.middlewares list is left as the user wrote it.
C16_AssetListsParsedSsrOnly ==
  (lOut.done /\ lIn.field \in AssetFields) =>
    IF lIn.field = "middlewares" /\ lIn.modeName # "ssr"
      THEN /\ Len(lOut.list) = Len(lIn.list)
           /\ \A i \in 1..Len(lIn.list) :
                lIn.list[i].type # "objectNoPath" =>
                  lOut.list[i] = Str(lIn.list[i].path)
      ELSE AssetsParsed(lIn.field, lIn.list, lOut.list)

C16_Witness ==
  /\ lOut.done /\ lIn.field = "css"
  /\ lIn.list = << [type |-> "string", path |-> <<"a">>],
                   [type |-> "string", path |-> <<"~">>],
                   [type |-> "string",
                    path |-> <<"~", "s", "r", "c", "/", "c", "s", "s", "/", "a">>] >>
  /\ lOut.list = << Str(<<"s", "r", "c", "/", "c", "s", "s", "/", "a">>) >>

\* the address step applies: development mode, not the bex target
HasDevServer == ctx.dev /\ ctx.modeName # "bex"

\* the default port of a target
DefaultPort(modeName, ssrPwa) ==
  CASE modeName = "spa" -> 9000
    [] modeName = "ssr" -> IF ssrPwa THEN 9150 ELSE 9100
    [] modeName = "pwa" -> 9200
    [] modeName = "electron" -> 9300
    [] modeName = "cordova" -> 9400
    [] modeName = "capacitor" -> 9500

\* C14: in development mode for a target other than bex, a pass whose
\* extension hooks have run requests the CLI host, else the user's host, else
\* 0.0.0.0, and the CLI port, else the user's port, else the default port of
\* the target (9150 for ssr with ssr.pwa true); in production mode and for the
\* bex target no pass reaches the address step, the negotiator is not called
\* and no negotiation is cached.
C14_RequestedAddress ==
  /\ [](~HasDevServer =>
          lastPass.n = 0 /\ pc # "onAddress" /\ ~address.set /\ ~addressRunning)
  /\ [][(HasDevServer /\ pc = "extend" /\ pc' \in {"validate", "onAddress"}) =>
          /\ lastPass'.n = cycle
          /\ lastPass'.req.host =
               (IF opts.host # NoHost THEN opts.host
                ELSE IF cur.host # NoHost THEN cur.host ELSE "0.0.0.0")
          /\ lastPass'.req.port =
               (IF opts.port # NoPort THEN opts.port
                ELSE IF cur.port # NoPort THEN cur.port
                ELSE DefaultPort(ctx.modeName, cur.ssrPwa))]_vars

C14_Witness ==
  /\ ctx.dev /\ ctx.modeName = "ssr" /\ opts.port = NoPort
  /\ lastPass.n = 2
  /\ lastPass.req = [host |-> "0.0.0.0", port |-> 9150]
  /\ lastPass.before.from.port = 9100

\* the running / last cycle did the step
Did(step) == \E i \in 1..Len(cyc.did) : cyc.did[i] = step

\* C17: when the export is not a function the factory is not invoked; when the
\* factory throws, rejects or returns null or a primitive, nothing is merged,
\* no extension hook and no validation gate is run; each of these ends the
\* cycle in a failure, fatal while no build has succeeded and a warning and a
\* normal return afterwards; only an object is merged and normalized.
C17_ShapeFailures ==
  /\ cyc.kind = "notFunction" => ~Did("factory") /\ cyc.ret = "none"
  /\ cyc.ret \in {"throws", "null", "primitive"} =>
       /\ CycleOver
       /\ cyc.kind = IF cyc.ret = "throws" THEN "factoryThrows" ELSE "notObject"
       /\ ~Did("merge") /\ ~Did("hooks") /\ ~Did("gate")
  /\ (CycleOver /\ cyc.kind \in {"notFunction", "factoryThrows", "notObject"}) =>
       IF firstSuccess = 0
         THEN cyc.end = "exit" /\ proc.status = "exited" /\ proc.fatal
         ELSE cyc.end = "return" /\ proc.status = "running" /\ NotDelivered(cyc.n)
  /\ Did("merge") => cyc.ret = "object"

C17_Witness ==
  /\ CycleOver /\ cyc.n = 2 /\ firstSuccess = 1
  /\ cyc.kind = "notObject" /\ cyc.ret = "null" /\ cyc.end = "return"
  /\ cyc.did = <<"compile", "load", "normalize", "factory">>

\* C18 as stated: no step changes the Context.
C18_ContextNeverWritten == [][ctx' = ctx]_vars

\* C18 amended: the Context is written in one place only: for the ssr target a
\* pass that passes the validation gate sets mode.pwa to the ssr.pwa of the
\* user config; dev and modeName, and mode.pwa of every other target, keep the
\* value they had when the session was constructed.
C18_OnlyModePwaWritten ==
  [][/\ ctx'.dev = ctx.dev
     /\ ctx'.modeName = ctx.modeName
     /\ ctx' # ctx => ctx.modeName = "ssr" /\ pc = "validate"
     /\ (pc = "validate" /\ cyc'.gate = "passed") =>
          ctx'.pwa = IF ctx.modeName = "ssr" THEN cur.ssrPwa ELSE ctx.pwa
     /\ (pc = "validate" /\ cyc'.gate # "passed") => ctx' = ctx]_vars

C18_Witness ==
  /\ ctx.modeName = "ssr" /\ ctx.pwa
  /\ CycleOver /\ cyc.gate = "passed" /\ cur.ssrPwa

\* C19: two passes of one session on the same user config and Context return
\* configs that differ at most in the dev-server host and port. In a session
\* without CLI host and port and for a target other than ssr the requested
\* pair determines the user config, so that a pass that reuses the cached
\* negotiation ran on the user config of the pass that stored it: both
\* return the same openBrowser.
C19_SameConfigSameOutput ==
  (/\ opts.host = NoHost /\ opts.port = NoPort /\ ctx.modeName # "ssr"
   /\ CycleOver /\ cyc.out # "none"
   /\ lastPass.n = cyc.n /\ lastPass.result = "cached"
   /\ addressOut # "none") =>
     cyc.out = addressOut

IsPrefix(s, t) == Len(s) <= Len(t) /\ SubSeq(t, 1, Len(s)) = s

\* the cycle has ended or is a past one, and did not end in a failure
Complete(n) ==
  /\ n \in 1..cycle
  /\ n \notin fruitless
  /\ n = cyc.n => CycleOver

\* C20: the steps of a cycle are done one after the other in the order compile,
\* load, export check, factory, merge, extension hooks, address, validation
\* gate; a cycle that does not end in a failure has done them all, with an
\* object from the factory, a non-null address from the negotiator when it was
\* called and a positive answer of the gate; every config that resolved the
\* promise of read(), is pending in the debounce timer or was applied is the
\* config of such a cycle.
C20_DeliveredConfigsAreOfCompleteCycles ==
  /\ IsPrefix(cyc.did, Steps(lastPass.probed))
  /\ (CycleOver /\ cyc.n \notin fruitless) =>
       /\ cyc.did = Steps(lastPass.probed)
       /\ cyc.ret = "object"
       /\ cyc.gate = "passed"
       /\ lastPass.probed => ~lastPass.probeFailed /\ lastPass.result = "ok"
  /\ \A i \in 1..Len(resolved) : Complete(resolved[i].cycle)
  /\ timer.left >= 0 => Complete(timer.arg.cycle)
  /\ applied > 0 => Complete(lastApplied.cfg)

C20_Witness ==
  /\ CycleOver /\ cyc.n = 2 /\ cyc.kind = "scheduled"
  /\ cyc.did = Steps(TRUE)
  /\ Len(resolved) = 1 /\ resolved[1].cycle = 1
  /\ timer.arg.cycle = 2


\* the pass is on a device target and requests an empty or a local host
DeviceLocalRequest ==
  /\ ctx.modeName \in {"cordova", "capacitor"}
  /\ lastPass.req.host \in {NoHost, "0.0.0.0", "localhost", "127.0.0.1", "::1"}

\* C21: getExternalIP() is called by a negotiation only for a device target
\* (cordova, capacitor) whose requested host is empty or local, and only
\* while no external host is cached; it caches the address it returns, the
\* cache is never cleared or changed afterwards, and every later such
\* negotiation takes the cached address as host without a call. For every
\* other target or host the negotiation keeps the requested host and does not
\* call getExternalIP().
C21_ExternalIPAskedOnce ==
  /\ [](/\ lastPass.ip # "none" =>
             DeviceLocalRequest /\ cachedExternalHost # NoHost
        /\ (lastPass.result \in {"ok", "null", "exit"} /\ DeviceLocalRequest) =>
             lastPass.ip # "none"
        /\ lastPass.result = "ok" =>
             lastPass.host = IF lastPass.ip = "none" THEN lastPass.req.host
                             ELSE cachedExternalHost)
  /\ [][/\ cachedExternalHost # NoHost => cachedExternalHost' = cachedExternalHost
        /\ (pc = "onAddress" /\ pc' # "onAddress") =>
             /\ lastPass'.ip = "called" => cachedExternalHost = NoHost
             /\ lastPass'.ip = "cached" => cachedExternalHost # NoHost
             /\ lastPass'.ip = "none" => cachedExternalHost' = cachedExternalHost
        /\ cachedExternalHost' # cachedExternalHost =>
             pc = "onAddress" /\ lastPass'.ip = "called"]_vars

C21_Witness ==
  /\ ctx.modeName = "cordova"
  /\ lastPass.n = 2 /\ lastPass.ip = "cached" /\ lastPass.result = "ok"
  /\ lastPass.req.host = "0.0.0.0" /\ lastPass.host = ExternalIP
  /\ lastPass.before.set /\ lastPass.before.to.host = ExternalIP


\* the derived flags of the bag have the values that the Context and the
\* router mode and base of the pass give them
DerivedFlagsSet ==
  /\ eOut.env["NODE_ENV"] = {IF eIn.dev THEN "development" ELSE "production"}
  /\ eOut.env["CLIENT"] = {TRUE}
  /\ eOut.env["SERVER"] = {FALSE}
  /\ eOut.env["DEV"] = {eIn.dev}
  /\ eOut.env["PROD"] = {~eIn.dev}
  /\ eOut.env["DEBUGGING"] = {eIn.dev \/ eIn.debug}
  /\ eOut.env["MODE"] = {eIn.modeName}
  /\ eOut.env["VUE_ROUTER_MODE"] = {eOut.vueRouterMode}
  /\ eOut.env["VUE_ROUTER_BASE"] = {eOut.vueRouterBase}

\* C22 as stated: after a successful pass the bag has the derived flags with
\* their derived values, whatever the user config sets them to, and has
\* APP_URL exactly when the pass computed an application URL.
C22_EnvBagAppUrlIffComputed ==
  eOut.done =>
    /\ DerivedFlagsSet
    /\ eOut.env["APP_URL"] # {} <=> eOut.APP_URL # {}

\* C22 amended: after a successful pass the bag has the derived flags with
\* their derived values, whatever the user config sets them to; when the pass
\* computed an application URL, APP_URL is that URL, whatever the user config
\* sets it to; when it computed none (production, a target other than
\* cordova, capacitor and bex), APP_URL is what the user config sets it to
\* and absent only when the user config does not set it. The other keys of
\* the user config are kept.
C22_EnvBag ==
  eOut.done =>
    /\ DerivedFlagsSet
    /\ eOut.APP_URL # {} <=>
         (eIn.dev \/ eIn.modeName \in {"cordova", "capacitor", "bex"})
    /\ eOut.env["APP_URL"] = IF eOut.APP_URL # {} THEN eOut.APP_URL
                             ELSE eIn.env["APP_URL"]
    /\ eOut.env["API_URL"] = eIn.env["API_URL"]

C22_Witness ==
  /\ eOut.done /\ ~eIn.dev /\ eIn.modeName = "capacitor"
  /\ \A k \in EnvKeys : eIn.env[k] # {}
  /\ eIn.env["NODE_ENV"] = {"test"} /\ eOut.env["NODE_ENV"] = {"production"}
  /\ eIn.env["CLIENT"] = {FALSE} /\ eOut.env["CLIENT"] = {TRUE}
  /\ eOut.env["APP_URL"] = eOut.APP_URL /\ eOut.env["APP_URL"] # eIn.env["APP_URL"]


\* C23: in watch mode, after watch(), a non-initial cycle that succeeds is
\* eventually followed by the apply callback being invoked with its config,
\* unless a later cycle succeeds (which takes over the pending apply).
C23_SuccessEventuallyApplied ==
  \A n \in 2..MaxCycles :
    (isWatching /\ CycleOver /\ cyc.n = n /\ cyc.kind = "scheduled")
      ~> (\/ applied > 0 /\ lastApplied.cfg = n
          \/ lastCall > n)

C23_Witness ==
  /\ isWatching /\ cycle = 2
  /\ CycleOver /\ cyc.n = 2 /\ cyc.kind = "scheduled"
  /\ timer = NoTimer
  /\ applied = 1 /\ lastApplied.cfg = 2

\* C24: a pending apply is changed only by the passing of time, by its firing
\* and by a later successful cycle, never by a cycle that fails; the callback
\* is invoked once per firing, with the pending config; and when the cycle
\* after a successful non-initial one fails while the apply is pending, the
\* callback is still invoked with the config of the successful cycle, unless
\* a later cycle succeeds before the timer fires.
C24_FailureKeepsPendingApply ==
  /\ [][/\ timer' # timer =>
             \/ timer.left > 0 /\ timer'.arg = timer.arg
                  /\ timer'.left >= 0 /\ timer'.left < timer.left
                  /\ cyc' = cyc
             \/ timer.left = 0 /\ timer' = NoTimer /\ applied' = applied + 1
                  /\ lastApplied'.cfg = timer.arg.cycle
             \/ cyc.end = "none" /\ cyc'.kind = "scheduled"
                  /\ timer'.arg.cycle = cyc.n
        /\ applied' # applied => timer.left = 0 /\ timer' = NoTimer
        /\ (cyc.end = "none" /\ cyc'.end # "none" /\ cyc.n \in fruitless') =>
             timer' = timer /\ applied' = applied]_vars
  /\ \A n \in 2..MaxCycles :
       (/\ CycleOver /\ cyc.n = n + 1 /\ cyc.n \in fruitless
        /\ timer.left >= 0 /\ timer.arg.cycle = n)
         ~> (\/ applied > 0 /\ lastApplied.cfg = n
             \/ lastCall > n)

C24_Witness ==
  /\ CycleOver /\ cyc.n = 3 /\ cyc.kind = "extensionThrows" /\ cyc.end = "return"
  /\ firstSuccess = 1 /\ lastCall = 2
  /\ timer.left > 0 /\ timer.left < DebounceWait /\ timer.arg.cycle = 2
  /\ applied = 0 /\ proc.status = "running"


\* C25: in development mode for a target other than bex, the user config not
\* setting devServer.open, a pass that reuses the cached negotiation returns
\* the openBrowser that a pass which negotiates returns: true for the targets
\* that open a browser (devServer.open defaults to true), none for cordova,
\* capacitor and electron.
C25_CachedPassOpensBrowserAsFresh ==
  (/\ HasDevServer /\ cur.open \in {"unset", "true"}
   /\ CycleOver /\ cyc.out # "none"
   /\ lastPass.n = cyc.n /\ lastPass.result \in {"cached", "ok", "unverified"}) =>
     cyc.out = IF ctx.modeName \in {"cordova", "capacitor", "electron"}
                 THEN "unset" ELSE "true"

\* C26: in watch mode the first successful cycle finds the resolver of the
\* promise of read() assigned, whether or not the start-up call
\* esbuildCtx.watch() has returned before the handler of the first build gets
\* there: no cycle ends by calling an unassigned resolver.
C26_ResolverAssignedAtFirstSuccess ==
  opts.watch =>
    /\ cyc.kind # "noResolver" /\ cyc.end # "throw"
    /\ (CycleOver /\ cyc.n = firstSuccess) =>
         firstBuildIsDone = "res" /\ cyc.kind = "resolved"

=============================================================================
